---- MODULE Spec2Model ----
(***************************************************************************)
(* BlinkTalk server (blinktalkminipy/server.py): the frame ingestion       *)
(* handler FrameHandler.do_POST, the health handler FrameHandler.do_GET,   *)
(* the EAR calculator, the blink state and the frame buffer.                *)
(*                                                                         *)
(* Optional values (Python None) are sequences of length 0 or 1:           *)
(* None is <<>> and a present value v is <<v>>.  An EAR value is the exact *)
(* rational <<numerator, denominator>>.                                     *)
(***************************************************************************)
EXTENDS Integers, Sequences, FiniteSets, TLC

VARIABLES
    frame_stats,    \* server.py:28  total_received, total_processed, total_errors, last_frame_time
    blink_state,    \* server.py:36  was_closed, blink_count, session_active, session_start_time
    frame_buffer,   \* server.py:49  deque(maxlen=10) of frame_info
    now,            \* the wall clock read by datetime.now()
    last,           \* the request handled by the latest step and what was sent back
    pushed,         \* history: every frame_info appended to frame_buffer, in order
    ears,           \* history: the defined EAR samples fed to the session since it started
    pc,             \* concurrent handlers: position of each worker thread
    loc,            \* concurrent handlers: local variables of each worker thread
    snaps           \* history: the statistics tuples held while each health request ran

vars == <<frame_stats, blink_state, frame_buffer, now, last, pushed, ears, pc, loc, snaps>>

-----------------------------------------------------------------------------
(* Bounds of the model *)

\* steps of the program as written (Spec)
MaxTime == 4
\* steps of a run with the session lifecycle (SpecSession)
MaxSessionTime == 6
\* requests of a run that fills the frame buffer (SpecBuffer)
MaxPush == 15
\* worker threads of the concurrent run (SpecConc)
NumThreads == 2
\* requests of a run that reads the statistics (SpecHealth)
MaxHealthTime == 12
\* requests of a run that exercises the EAR calculator (SpecEar)
MaxEarTime == 3

-----------------------------------------------------------------------------
(* Optional values *)

None == <<>>
Some(v) == <<v>>
TheVal(o) == o[1]
\* dict.get(key, default)
Get(o, default) == IF o = None THEN default ELSE TheVal(o)

-----------------------------------------------------------------------------
(* Program constants *)

\* EAR_BLINK_THRESHOLD = 0.35, as the rational 35/100
EAR_BLINK_THRESHOLD == <<35, 100>>
\* frame_buffer = deque(maxlen=10)
FRAME_BUFFER_MAXLEN == 10

-----------------------------------------------------------------------------
(* EARCalculator *)

RECURSIVE SqrtSearch(_, _, _)
SqrtSearch(n, lo, hi) ==
    IF lo >= hi THEN lo
    ELSE LET mid == (lo + hi + 1) \div 2
         IN  IF mid * mid <= n THEN SqrtSearch(n, mid, hi)
                               ELSE SqrtSearch(n, lo, mid - 1)

\* np.linalg.norm(p - q): the Euclidean distance.  The contours of the model
\* are chosen so that every distance taken is an integer, where the integer
\* square root is exact.
norm(p, q) ==
    LET dx == p[1] - q[1]
        dy == p[2] - q[2]
        d2 == dx * dx + dy * dy
        adx == IF dx < 0 THEN 0 - dx ELSE dx
        ady == IF dy < 0 THEN 0 - dy ELSE dy
    IN  SqrtSearch(d2, 0, adx + ady)

\* the guard against a zero horizontal distance dropped
calculate_ear_NoZeroGuard(eye_points) ==
    IF eye_points = None \/ Len(eye_points) < 6 THEN None
    ELSE LET vertical1 == norm(eye_points[3], eye_points[6])
             vertical2 == norm(eye_points[5], eye_points[4])
             horizontal == norm(eye_points[1], eye_points[2])
         IN  Some(<<vertical1 + vertical2, 2 * horizontal>>)

\* each top point paired with the bottom point below it
calculate_ear_StraightPairs(eye_points) ==
    IF eye_points = None \/ Len(eye_points) < 6 THEN None
    ELSE LET vertical1 == norm(eye_points[3], eye_points[4])
             vertical2 == norm(eye_points[5], eye_points[6])
             horizontal == norm(eye_points[1], eye_points[2])
         IN  IF horizontal = 0 THEN None
             ELSE Some(<<vertical1 + vertical2, 2 * horizontal>>)

\* EARCalculator.calculate_ear
calculate_ear(eye_points) ==
    IF eye_points = None \/ Len(eye_points) < 6 THEN None
    ELSE LET p1 == eye_points[1]   \* outer corner
             p4 == eye_points[2]   \* inner corner
             p2 == eye_points[3]   \* top1
             p5 == eye_points[4]   \* bottom1
             p3 == eye_points[5]   \* top2
             p6 == eye_points[6]   \* bottom2
             vertical1 == norm(p2, p6)
             vertical2 == norm(p3, p5)
             horizontal == norm(p1, p4)
         IN  IF horizontal = 0 THEN None
             ELSE Some(<<vertical1 + vertical2, 2 * horizontal>>)

\* no EAR unless both eyes have one
calculate_average_ear_OnlyBoth(landmarks) ==
    IF landmarks = None THEN None
    ELSE LET left_ear == calculate_ear(TheVal(landmarks).left_eye)
             right_ear == calculate_ear(TheVal(landmarks).right_eye)
         IN  IF left_ear # None /\ right_ear # None
             THEN LET l == TheVal(left_ear)
                      r == TheVal(right_ear)
                  IN  Some(<<l[1] * r[2] + r[1] * l[2], 2 * l[2] * r[2]>>)
             ELSE None

\* EARCalculator.calculate_average_ear; landmarks is None or Some(record)
calculate_average_ear(landmarks) ==
    IF landmarks = None THEN None
    ELSE LET left_ear == calculate_ear(TheVal(landmarks).left_eye)
             right_ear == calculate_ear(TheVal(landmarks).right_eye)
         IN  IF left_ear # None /\ right_ear # None
             THEN LET l == TheVal(left_ear)
                      r == TheVal(right_ear)
                  IN  Some(<<l[1] * r[2] + r[1] * l[2], 2 * l[2] * r[2]>>)
             ELSE IF left_ear # None THEN left_ear
             ELSE IF right_ear # None THEN right_ear
             ELSE None

\* a <= b on rationals with positive denominators
RatLeq(a, b) == a[1] * b[2] <= b[1] * a[2]

-----------------------------------------------------------------------------
(* FaceLandmarkDetector: the detector is an external collaborator; what it   *)
(* finds in an image is an input of the model.                               *)

\* an eye contour [outer, inner, top1, bottom1, top2, bottom2] of width 200
\* whose two vertical pairs are each 2*k apart: its EAR is k/100
Eye(k) == << <<0, 0>>, <<200, 0>>, <<100, k>>, <<100, 0 - k>>, <<100, k>>, <<100, 0 - k>> >>

\* what happens inside detect_landmarks: "raise" (an exception in cv2/dlib,
\* caught at line 282), "no_face" (the image does not decode, no detector is
\* loaded or no face is found: lines 149, 166, 229, 244) or "found" with the
\* two contours
Detection(kind, left, right, eyes) ==
    [kind |-> kind, left_eye |-> left, right_eye |-> right, eyes_detected |-> eyes]

DetRaise == Detection("raise", None, None, FALSE)
DetNoFace == Detection("no_face", None, None, FALSE)
DetEar(k) == Detection("found", Eye(k), Eye(k), TRUE)

\* a contour of six points whose two corners coincide
DegenerateEye == << <<0, 0>>, <<0, 0>>, <<100, 20>>, <<100, 0 - 20>>, <<100, 20>>, <<100, 0 - 20>> >>
\* a face found whose two contours are degenerate
DetDegenerate == Detection("found", DegenerateEye, DegenerateEye, TRUE)

\* a contour whose top points are not above its bottom points: top1 to
\* bottom2 is 20, top2 to bottom1 is 17, the corners are 40 apart
SlantedEye == << <<0, 0>>, <<40, 0>>, <<10, 8>>, <<10, 0 - 4>>, <<25, 4>>, <<22, 0 - 8>> >>
\* a contour of five points
ShortEye == SubSeq(Eye(33), 1, 5)

\* a failed detection returned as a result without contours instead of None
detect_landmarks_EmptyResult(det) ==
    IF det.kind = "found"
    THEN Some([left_eye |-> det.left_eye, right_eye |-> det.right_eye,
               face_detected |-> TRUE, eyes_detected |-> det.eyes_detected])
    ELSE Some([left_eye |-> None, right_eye |-> None,
               face_detected |-> FALSE, eyes_detected |-> FALSE])

\* FaceLandmarkDetector.detect_landmarks: every failure inside is caught and
\* returned as None
detect_landmarks(det) ==
    IF det.kind = "found"
    THEN Some([left_eye |-> det.left_eye, right_eye |-> det.right_eye,
               face_detected |-> TRUE, eyes_detected |-> det.eyes_detected])
    ELSE None

-----------------------------------------------------------------------------
(* Frame buffer and base64 *)

\* a full buffer that drops the new frame instead of the oldest
BufferAppend_DropNewest(buf, frame_info) ==
    IF Len(buf) >= FRAME_BUFFER_MAXLEN
    THEN buf
    ELSE Append(buf, frame_info)

\* deque(maxlen=10).append
BufferAppend(buf, frame_info) ==
    IF Len(buf) >= FRAME_BUFFER_MAXLEN
    THEN Append(Tail(buf), frame_info)
    ELSE Append(buf, frame_info)

\* base64.b64decode on the frame strings of the model: the decoded bytes, or
\* None where it raises binascii.Error (incorrect padding)
b64decode(s) ==
    CASE s = "QQ==" -> Some(<<65>>)
      [] s = "QkM=" -> Some(<<66, 67>>)
      [] s = "QQ"   -> None
      [] OTHER      -> None

-----------------------------------------------------------------------------
(* Blink detection, do_POST lines 413-424 *)

\* an EAR equal to the threshold classified as open
is_closed_Strict(ear) == ear[1] * EAR_BLINK_THRESHOLD[2] < EAR_BLINK_THRESHOLD[1] * ear[2]

\* is_closed = ear_value <= EAR_BLINK_THRESHOLD
is_closed(ear) == RatLeq(ear, EAR_BLINK_THRESHOLD)

\* the session check dropped from line 414
SessionGate_NoSessionCheck(ear_value, bs) == ear_value # None

\* the session check of line 414 negated
SessionGate_Inverted(ear_value, bs) == ear_value # None /\ ~bs.session_active

\* if ear_value is not None and blink_state['session_active']
SessionGate(ear_value, bs) == ear_value # None /\ bs.session_active

\* a blink counted on entry to closed instead of on the closed -> open edge
BlinkEdge_OnEntry(was_closed, closed) == ~was_closed /\ closed

\* a blink counted on every open frame, whatever the previous frame was
BlinkEdge_AnyOpen(was_closed, closed) == ~closed

\* if blink_state['was_closed'] and not is_closed
BlinkEdge(was_closed, closed) == was_closed /\ ~closed

\* the session check guarding only the update of was_closed, not the count
BlinkUpdate_CountsWhileIdle(bs, ear_value) ==
    IF ear_value # None
    THEN LET closed == is_closed(TheVal(ear_value))
             counted == IF BlinkEdge(bs.was_closed, closed)
                        THEN [bs EXCEPT !.blink_count = @ + 1]
                        ELSE bs
         IN  IF bs.session_active THEN [counted EXCEPT !.was_closed = closed]
                                  ELSE counted
    ELSE bs

\* a frame without EAR taken as an open frame that counts nothing
BlinkUpdate_UndefinedResets(bs, ear_value) ==
    IF SessionGate(ear_value, bs)
    THEN LET closed == is_closed(TheVal(ear_value))
             counted == IF BlinkEdge(bs.was_closed, closed)
                        THEN [bs EXCEPT !.blink_count = @ + 1]
                        ELSE bs
         IN  [counted EXCEPT !.was_closed = closed]
    ELSE IF bs.session_active THEN [bs EXCEPT !.was_closed = FALSE]
    ELSE bs

\* a closed -> open edge counted as two blinks
BlinkUpdate_CountsTwice(bs, ear_value) ==
    IF SessionGate(ear_value, bs)
    THEN LET closed == is_closed(TheVal(ear_value))
             counted == IF BlinkEdge(bs.was_closed, closed)
                        THEN [bs EXCEPT !.blink_count = @ + 2]
                        ELSE bs
         IN  [counted EXCEPT !.was_closed = closed]
    ELSE bs

\* the blink state after one frame whose EAR is ear_value (None or Some)
BlinkUpdate(bs, ear_value) ==
    IF SessionGate(ear_value, bs)
    THEN LET closed == is_closed(TheVal(ear_value))
             counted == IF BlinkEdge(bs.was_closed, closed)
                        THEN [bs EXCEPT !.blink_count = @ + 1]
                        ELSE bs
         IN  [counted EXCEPT !.was_closed = closed]
    ELSE bs

-----------------------------------------------------------------------------
(* Requests *)

\* A request and what its environment does while it is handled:
\*   method, path         the request line
\*   content_length_ok    whether the Content-Length header parses as an int
\*   body                 "not_utf8", "not_json", "non_object" (JSON that is
\*                        no object) or "object"
\*   frame, frame_id, timestamp   fields of the JSON object, None when absent
\*   save_frame           the save_frame field (absent is False)
\*   det                  what the landmark detector does with the image
\*   persist_ok           whether writing the frame file succeeds
Request(method, path, cl, body, frame, frame_id, timestamp, save, det, persist) ==
    [method |-> method, path |-> path, content_length_ok |-> cl, body |-> body,
     frame |-> frame, frame_id |-> frame_id, timestamp |-> timestamp,
     save_frame |-> save, det |-> det, persist_ok |-> persist]

NoRequest == Request("", "", TRUE, "", None, None, None, FALSE, DetNoFace, TRUE)

\* a POST of a JSON object with a frame
PostFrame(path, frame, frame_id, save, det, persist) ==
    Request("POST", path, TRUE, "object", Some(frame), Some(frame_id), Some("t0"),
            save, det, persist)

\* a POST without a usable JSON object
PostBody(body, cl) ==
    Request("POST", "/", cl, body, None, None, None, FALSE, DetNoFace, TRUE)

GetPath(path) ==
    Request("GET", path, TRUE, "", None, None, None, FALSE, DetNoFace, TRUE)

-----------------------------------------------------------------------------
(* Responses *)

HttpResponse(code, body) == [http |-> code, body |-> body]

ErrorBody(message) == [status |-> "error", message |-> message]

\* datetime.isoformat()
isoformat(t) == ToString(t)

-----------------------------------------------------------------------------
(* FrameHandler.do_POST as one step: the state and the responses it leaves *)

Outcome(fs, bs, fb, responses, raised, appended, fed) ==
    [frame_stats |-> fs, blink_state |-> bs, frame_buffer |-> fb,
     responses |-> responses, raised |-> raised, appended |-> appended, fed |-> fed]

\* total_received counted without the time of the frame being noted
Received_NoTime(fs, t) == [fs EXCEPT !.total_received = @ + 1]

\* line 383-384: total_received += 1; last_frame_time = datetime.now()
Received(fs, t) ==
    [fs EXCEPT !.total_received = @ + 1, !.last_frame_time = Some(t)]

\* lines 479: total_processed += 1
Processed(fs) == [fs EXCEPT !.total_processed = @ + 1]

\* a failed request counted as processed too
Errored_AlsoProcessed(fs) ==
    [fs EXCEPT !.total_errors = @ + 1, !.total_processed = @ + 1]

\* lines 496, 503, 509: total_errors += 1
Errored(fs) == [fs EXCEPT !.total_errors = @ + 1]

\* lines 511-516: the response is sent with status 200
SendJson(body) == <<HttpResponse(200, Some(body))>>

\* lines 391-490, the branch taken when the frame field is not empty
ProcessFrame(fs, bs, fb, t, req, frame_base64) ==
    LET frame_id == Get(req.frame_id, "unknown")
        timestamp == Get(req.timestamp, isoformat(t))
        image_data == b64decode(frame_base64)
    IN  IF image_data = None
        THEN \* binascii.Error, caught at line 504
             Outcome(Errored(fs), bs, fb,
                     SendJson(ErrorBody("Error processing frame")), FALSE, None, None)
        ELSE
        LET frame_info == [frame_id |-> frame_id, timestamp |-> timestamp,
                           data |-> TheVal(image_data),
                           size |-> Len(TheVal(image_data))]
            fb1 == BufferAppend(fb, frame_info)
            landmarks == detect_landmarks(req.det)
            face_detected == landmarks # None
            ear_value == calculate_average_ear(landmarks)
            bs1 == BlinkUpdate(bs, ear_value)
            fed == IF bs.session_active THEN ear_value ELSE None
            filepath == IF req.save_frame
                        THEN Some(<<"received_frames", frame_id, timestamp>>)
                        ELSE None
        IN  IF req.save_frame /\ ~req.persist_ok
            THEN \* OSError from open/write, caught at line 504
                 Outcome(Errored(fs), bs1, fb1,
                         SendJson(ErrorBody("Error processing frame")), FALSE,
                         Some(frame_info), fed)
            ELSE Outcome(Processed(fs), bs1, fb1,
                         SendJson([status |-> "success",
                                   message |-> "Frame received",
                                   frame_id |-> frame_id,
                                   saved |-> req.save_frame,
                                   filepath |-> filepath,
                                   face_detected |-> face_detected,
                                   ear_value |-> ear_value]),
                         FALSE, Some(frame_info), fed)

\* FrameHandler.do_POST, lines 368-516; the path of the request is not read
PostOutcome(fs, bs, fb, t, req) ==
    IF ~req.content_length_ok
    THEN \* int() raises ValueError at line 370, outside the try
         Outcome(fs, bs, fb, <<>>, TRUE, None, None)
    ELSE IF req.body = "not_json"
    THEN \* json.JSONDecodeError, line 498
         Outcome(Errored(fs), bs, fb, SendJson(ErrorBody("Invalid JSON data")),
                 FALSE, None, None)
    ELSE IF req.body # "object"
    THEN \* UnicodeDecodeError at line 375 or AttributeError at line 378, line 504
         Outcome(Errored(fs), bs, fb, SendJson(ErrorBody("Error processing frame")),
                 FALSE, None, None)
    ELSE LET frame_base64 == Get(req.frame, "")
             fs1 == Received(fs, t)
         IN  IF frame_base64 # ""
             THEN ProcessFrame(fs1, bs, fb, t, req, frame_base64)
             ELSE Outcome(Errored(fs1), bs, fb,
                          SendJson(ErrorBody("No frame data provided")),
                          FALSE, None, None)

\* frames_in_buffer reported as the number of frames received
GetResponse_CountsReceived(fs, fb, req) ==
    IF req.path = "/health"
    THEN HttpResponse(200, Some(
            [status |-> "running",
             stats |-> [total_received |-> fs.total_received,
                        total_processed |-> fs.total_processed,
                        total_errors |-> fs.total_errors,
                        frames_in_buffer |-> fs.total_received,
                        last_frame_time |->
                            IF fs.last_frame_time # None
                            THEN Some(isoformat(TheVal(fs.last_frame_time)))
                            ELSE None]]))
    ELSE HttpResponse(404, None)

\* FrameHandler.do_GET, lines 518-539
GetResponse(fs, fb, req) ==
    IF req.path = "/health"
    THEN HttpResponse(200, Some(
            [status |-> "running",
             stats |-> [total_received |-> fs.total_received,
                        total_processed |-> fs.total_processed,
                        total_errors |-> fs.total_errors,
                        frames_in_buffer |-> Len(fb),
                        last_frame_time |->
                            IF fs.last_frame_time # None
                            THEN Some(isoformat(TheVal(fs.last_frame_time)))
                            ELSE None]]))
    ELSE HttpResponse(404, None)

-----------------------------------------------------------------------------
(* Worker threads of the concurrent run *)

Threads == 1..NumThreads

\* the locals of a handler: the request, the value loaded by the read half of
\* a += 1, is_closed, face_detected, ear_value, the response body being built,
\* the responses sent and the statistics read so far by do_GET
NoLocals == [req |-> NoRequest, tmp |-> 0, closed |-> FALSE, face_detected |-> FALSE,
             ear_value |-> None, body |-> None, responses |-> <<>>, stats |-> <<>>]

-----------------------------------------------------------------------------
(* State after construction, server.py lines 28-49 *)

Init ==
    /\ frame_stats = [total_received |-> 0, total_processed |-> 0,
                      total_errors |-> 0, last_frame_time |-> None]
    /\ blink_state = [was_closed |-> FALSE, blink_count |-> 0,
                      session_active |-> FALSE, session_start_time |-> None]
    /\ frame_buffer = <<>>
    /\ now = 0
    /\ last = [req |-> NoRequest, responses |-> <<>>, raised |-> FALSE]
    /\ pushed = <<>>
    /\ ears = <<>>
    /\ pc = [t \in Threads |-> "idle"]
    /\ loc = [t \in Threads |-> NoLocals]
    /\ snaps = [t \in Threads |-> {}]

-----------------------------------------------------------------------------
(* Requests handled one at a time *)

\* one POST request, handled from its first line to its response
do_POST(req) ==
    \E out \in {PostOutcome(frame_stats, blink_state, frame_buffer, now, req)} :
        /\ req.method = "POST"
        /\ frame_stats' = out.frame_stats
        /\ blink_state' = out.blink_state
        /\ frame_buffer' = out.frame_buffer
        /\ last' = [req |-> req, responses |-> out.responses, raised |-> out.raised]
        /\ pushed' = IF out.appended # None
                     THEN Append(pushed, TheVal(out.appended)) ELSE pushed
        /\ ears' = IF out.fed # None THEN Append(ears, TheVal(out.fed)) ELSE ears
        /\ now' = now + 1
        /\ UNCHANGED <<pc, loc, snaps>>

\* one GET request
\* a request for the statistics counted as a received frame
do_GET_Counting(req) ==
    /\ req.method = "GET"
    /\ frame_stats' = [frame_stats EXCEPT !.total_received = @ + 1]
    /\ last' = [req |-> req, responses |-> <<GetResponse(frame_stats', frame_buffer, req)>>,
                raised |-> FALSE]
    /\ now' = now + 1
    /\ UNCHANGED <<blink_state, frame_buffer, pushed, ears, pc, loc, snaps>>

do_GET(req) ==
    /\ req.method = "GET"
    /\ last' = [req |-> req, responses |-> <<GetResponse(frame_stats, frame_buffer, req)>>,
                raised |-> FALSE]
    /\ now' = now + 1
    /\ UNCHANGED <<frame_stats, blink_state, frame_buffer, pushed, ears, pc, loc, snaps>>

-----------------------------------------------------------------------------
(* The program as written: POST and GET requests, one at a time *)

PostRequests ==
    { PostBody("object", FALSE), PostBody("not_utf8", TRUE), PostBody("not_json", TRUE),
      PostBody("non_object", TRUE), PostBody("object", TRUE),
      PostFrame("/", "QQ", "f1", FALSE, DetNoFace, TRUE),
      PostFrame("/", "QQ==", "f1", FALSE, DetRaise, TRUE),
      PostFrame("/", "QQ==", "f1", FALSE, DetNoFace, TRUE),
      PostFrame("/", "QQ==", "f1", FALSE, DetEar(33), TRUE),
      PostFrame("/", "QQ==", "f1", FALSE, DetEar(46), TRUE),
      PostFrame("/", "QQ==", "f1", TRUE, DetEar(46), TRUE),
      PostFrame("/", "QQ==", "f1", TRUE, DetNoFace, FALSE),
      PostFrame("/other", "QQ==", "f1", FALSE, DetNoFace, TRUE) }

GetRequests == { GetPath("/health"), GetPath("/other") }

Next ==
    \/ \E req \in PostRequests : now < MaxTime /\ do_POST(req)
    \/ \E req \in GetRequests : now < MaxTime /\ do_GET(req)

Spec == Init /\ [][Next]_vars

-----------------------------------------------------------------------------
(* The session lifecycle.  server.py declares the session fields (lines     *)
(* 35-41) and no operation that sets them; startSession and stopSession     *)
(* are modelled from the specification, section 4.2.                         *)

SessionOp(name) ==
    Request(name, "", TRUE, "", None, None, None, FALSE, DetNoFace, TRUE)

\* startSession(): Idle -> Active{wasClosed=false}, blinkCount reset to 0, the
\* start timestamp recorded; a call while Active is a no-op
startSession ==
    /\ ~blink_state.session_active
    /\ blink_state' = [was_closed |-> FALSE, blink_count |-> 0,
                       session_active |-> TRUE, session_start_time |-> Some(now)]
    /\ ears' = <<>>
    /\ last' = [req |-> SessionOp("startSession"), responses |-> <<>>, raised |-> FALSE]
    /\ now' = now + 1
    /\ UNCHANGED <<frame_stats, frame_buffer, pushed, pc, loc, snaps>>

\* stopSession(): Active -> Idle, blinkCount retained
stopSession ==
    /\ blink_state.session_active
    /\ blink_state' = [blink_state EXCEPT !.session_active = FALSE]
    /\ last' = [req |-> SessionOp("stopSession"), responses |-> <<>>, raised |-> FALSE]
    /\ now' = now + 1
    /\ UNCHANGED <<frame_stats, frame_buffer, pushed, ears, pc, loc, snaps>>

\* EAR samples of the session runs, in hundredths
EarLevels == {15, 20, 33, 35, 46}

SessionRequests ==
    { PostFrame("/", "QQ==", "f1", FALSE, DetEar(k), TRUE) : k \in EarLevels }
    \cup { PostFrame("/", "QQ==", "f1", FALSE, DetNoFace, TRUE),
           PostFrame("/", "QQ==", "f1", TRUE, DetRaise, TRUE),
           PostFrame("/", "QQ==", "f1", TRUE, DetNoFace, FALSE),
           PostFrame("/", "QQ==", "f1", TRUE, DetEar(46), FALSE),
           PostFrame("/", "QQ==", "f1", FALSE, DetDegenerate, TRUE) }

NextSession ==
    \/ now < MaxSessionTime /\ startSession
    \/ now < MaxSessionTime /\ stopSession
    \/ \E req \in SessionRequests : now < MaxSessionTime /\ do_POST(req)
    \/ now < MaxSessionTime /\ do_GET(GetPath("/health"))

SpecSession == Init /\ [][NextSession]_vars

-----------------------------------------------------------------------------
(* A run that fills the frame buffer: successful ingestions of two          *)
(* distinguishable frames                                                    *)

BufferRequests ==
    { PostFrame("/", "QQ==", "f1", FALSE, DetNoFace, TRUE),
      PostFrame("/", "QkM=", "f2", FALSE, DetNoFace, TRUE) }

NextBuffer == \E req \in BufferRequests : now < MaxPush /\ do_POST(req)

SpecBuffer == Init /\ [][NextBuffer]_vars

-----------------------------------------------------------------------------
(* A run that exercises the EAR calculator: frames in which the detector    *)
(* finds each pair of contours, or no face                                   *)

\* the contours given to calculate_ear: absent, too short, closed, open,
\* slanted, with coincident corners
EarContours == {None, ShortEye, Eye(0), Eye(33), Eye(46), SlantedEye, DegenerateEye}

EarRequests ==
    { PostFrame("/", "QQ==", "f1", FALSE, Detection("found", l, r, TRUE), TRUE) :
        l \in EarContours, r \in EarContours }
    \cup { PostFrame("/", "QQ==", "f1", FALSE, DetNoFace, TRUE) }

NextEar == \E req \in EarRequests : now < MaxEarTime /\ do_POST(req)

SpecEar == Init /\ [][NextEar]_vars

-----------------------------------------------------------------------------
(* A run that reads the statistics: ingestions that succeed or fail, and    *)
(* health requests                                                           *)

HealthRequests ==
    { PostFrame("/", "QQ==", "f1", FALSE, DetNoFace, TRUE),
      PostFrame("/", "QQ==", "f1", TRUE, DetNoFace, FALSE),
      PostBody("not_json", TRUE),
      PostBody("object", TRUE) }

NextHealth ==
    \/ \E req \in HealthRequests : now < MaxHealthTime /\ do_POST(req)
    \/ now < MaxHealthTime /\ do_GET(GetPath("/health"))

SpecHealth == Init /\ [][NextHealth]_vars

-----------------------------------------------------------------------------
(* Concurrent requests: ThreadingMixIn runs one worker thread per request   *)
(* (lines 552-556) and the handlers take no lock, so the statements of two  *)
(* handlers interleave; x += 1 on a shared dict entry is a read followed by  *)
(* a write.                                                                  *)

Goto(t, label) == pc' = [pc EXCEPT ![t] = label]

SetLoc(t, l) == loc' = [loc EXCEPT ![t] = l]

\* the statistics a health request reports
StatsTuple(fs, fb) ==
    <<fs.total_received, fs.total_processed, fs.total_errors, Len(fb)>>

\* the positions of a health request between its first line and its response
HealthInFlight == {"get_recv", "get_proc", "get_err", "get_buf", "get_time"}

\* history: after every step, the statistics held at that instant are noted
\* for each health request in flight
Observe ==
    snaps' = [u \in Threads |->
                IF pc[u] \in HealthInFlight \/ pc'[u] \in HealthInFlight
                THEN snaps[u] \cup {StatsTuple(frame_stats, frame_buffer),
                                    StatsTuple(frame_stats', frame_buffer')}
                ELSE snaps[u]]

\* the except clauses at lines 498-509 and the else at 491-496: the error
\* response is built, then total_errors += 1
Fail(t, message) ==
    /\ Goto(t, "err_load")
    /\ SetLoc(t, [loc[t] EXCEPT !.body = Some(ErrorBody(message))])

\* a worker thread takes a request
Accept(t, req) ==
    /\ pc[t] = "idle"
    /\ Goto(t, IF req.method = "POST" THEN "parse" ELSE "get")
    /\ SetLoc(t, [NoLocals EXCEPT !.req = req])
    /\ now' = now + 1
    /\ UNCHANGED <<frame_stats, blink_state, frame_buffer, last, pushed, ears>>
    /\ Observe

\* lines 370-381: the header and the body are parsed
Parse(t) ==
    /\ pc[t] = "parse"
    /\ IF ~loc[t].req.content_length_ok
       THEN Goto(t, "raised") /\ UNCHANGED loc
       ELSE IF loc[t].req.body = "not_json"
       THEN Fail(t, "Invalid JSON data")
       ELSE IF loc[t].req.body # "object"
       THEN Fail(t, "Error processing frame")
       ELSE Goto(t, "recv_load") /\ UNCHANGED loc
    /\ UNCHANGED <<frame_stats, blink_state, frame_buffer, now, last, pushed, ears>>
    /\ Observe

\* line 383, the read of frame_stats['total_received'] += 1
RecvLoad(t) ==
    /\ pc[t] = "recv_load"
    /\ SetLoc(t, [loc[t] EXCEPT !.tmp = frame_stats.total_received])
    /\ Goto(t, "recv_store")
    /\ UNCHANGED <<frame_stats, blink_state, frame_buffer, now, last, pushed, ears>>
    /\ Observe

\* line 383, the write of frame_stats['total_received'] += 1
RecvStore(t) ==
    /\ pc[t] = "recv_store"
    /\ frame_stats' = [frame_stats EXCEPT !.total_received = loc[t].tmp + 1]
    /\ Goto(t, "set_time")
    /\ UNCHANGED <<blink_state, frame_buffer, now, last, pushed, ears, loc>>
    /\ Observe

\* line 384
SetTime(t) ==
    /\ pc[t] = "set_time"
    /\ frame_stats' = [frame_stats EXCEPT !.last_frame_time = Some(now)]
    /\ Goto(t, "decode")
    /\ UNCHANGED <<blink_state, frame_buffer, now, last, pushed, ears, loc>>
    /\ Observe

\* lines 391-392: the frame field is tested and decoded
Decode(t) ==
    /\ pc[t] = "decode"
    /\ IF Get(loc[t].req.frame, "") = ""
       THEN Fail(t, "No frame data provided")
       ELSE IF b64decode(Get(loc[t].req.frame, "")) = None
       THEN Fail(t, "Error processing frame")
       ELSE Goto(t, "push") /\ UNCHANGED loc
    /\ UNCHANGED <<frame_stats, blink_state, frame_buffer, now, last, pushed, ears>>
    /\ Observe

\* lines 395-401: frame_buffer.append(frame_info)
Push(t) ==
    /\ pc[t] = "push"
    /\ LET image_data == TheVal(b64decode(Get(loc[t].req.frame, "")))
           frame_info == [frame_id |-> Get(loc[t].req.frame_id, "unknown"),
                          timestamp |-> Get(loc[t].req.timestamp, isoformat(now)),
                          data |-> image_data, size |-> Len(image_data)]
       IN  /\ frame_buffer' = BufferAppend(frame_buffer, frame_info)
           /\ pushed' = Append(pushed, frame_info)
    /\ Goto(t, "detect")
    /\ UNCHANGED <<frame_stats, blink_state, now, last, ears, loc>>
    /\ Observe

\* lines 405-416: the detector and the EAR calculator run, then the session
\* flag is read
Detect(t) ==
    /\ pc[t] = "detect"
    /\ LET landmarks == detect_landmarks(loc[t].req.det)
           ear_value == calculate_average_ear(landmarks)
           gate == SessionGate(ear_value, blink_state)
       IN  /\ SetLoc(t, [loc[t] EXCEPT
                            !.face_detected = landmarks # None,
                            !.ear_value = ear_value,
                            !.closed = IF ear_value # None
                                       THEN is_closed(TheVal(ear_value)) ELSE FALSE])
           /\ Goto(t, IF gate THEN "blink_edge" ELSE "save")
           /\ ears' = IF gate THEN Append(ears, TheVal(ear_value)) ELSE ears
    /\ UNCHANGED <<frame_stats, blink_state, frame_buffer, now, last, pushed>>
    /\ Observe

\* line 419: blink_state['was_closed'] is read
BlinkEdgeRead(t) ==
    /\ pc[t] = "blink_edge"
    /\ Goto(t, IF BlinkEdge(blink_state.was_closed, loc[t].closed)
               THEN "count_load" ELSE "closed_store")
    /\ UNCHANGED <<frame_stats, blink_state, frame_buffer, now, last, pushed, ears, loc>>
    /\ Observe

\* line 420, the read of blink_state['blink_count'] += 1
CountLoad(t) ==
    /\ pc[t] = "count_load"
    /\ SetLoc(t, [loc[t] EXCEPT !.tmp = blink_state.blink_count])
    /\ Goto(t, "count_store")
    /\ UNCHANGED <<frame_stats, blink_state, frame_buffer, now, last, pushed, ears>>
    /\ Observe

\* line 420, the write of blink_state['blink_count'] += 1
CountStore(t) ==
    /\ pc[t] = "count_store"
    /\ blink_state' = [blink_state EXCEPT !.blink_count = loc[t].tmp + 1]
    /\ Goto(t, "closed_store")
    /\ UNCHANGED <<frame_stats, frame_buffer, now, last, pushed, ears, loc>>
    /\ Observe

\* line 424: blink_state['was_closed'] = is_closed
ClosedStore(t) ==
    /\ pc[t] = "closed_store"
    /\ blink_state' = [blink_state EXCEPT !.was_closed = loc[t].closed]
    /\ Goto(t, "save")
    /\ UNCHANGED <<frame_stats, frame_buffer, now, last, pushed, ears, loc>>
    /\ Observe

\* lines 472-477: the frame is written to disk when asked
Save(t) ==
    /\ pc[t] = "save"
    /\ IF loc[t].req.save_frame /\ ~loc[t].req.persist_ok
       THEN Fail(t, "Error processing frame")
       ELSE Goto(t, "proc_load") /\ UNCHANGED loc
    /\ UNCHANGED <<frame_stats, blink_state, frame_buffer, now, last, pushed, ears>>
    /\ Observe

\* line 479, the read of frame_stats['total_processed'] += 1
ProcLoad(t) ==
    /\ pc[t] = "proc_load"
    /\ SetLoc(t, [loc[t] EXCEPT !.tmp = frame_stats.total_processed])
    /\ Goto(t, "proc_store")
    /\ UNCHANGED <<frame_stats, blink_state, frame_buffer, now, last, pushed, ears>>
    /\ Observe

\* line 479, the write of frame_stats['total_processed'] += 1, and lines
\* 482-490, the success response
ProcStore(t) ==
    /\ pc[t] = "proc_store"
    /\ frame_stats' = [frame_stats EXCEPT !.total_processed = loc[t].tmp + 1]
    /\ SetLoc(t, [loc[t] EXCEPT !.body =
            Some([status |-> "success", message |-> "Frame received",
                  frame_id |-> Get(loc[t].req.frame_id, "unknown"),
                  saved |-> loc[t].req.save_frame,
                  filepath |-> IF loc[t].req.save_frame
                               THEN Some(<<"received_frames",
                                           Get(loc[t].req.frame_id, "unknown"),
                                           Get(loc[t].req.timestamp, isoformat(now))>>)
                               ELSE None,
                  face_detected |-> loc[t].face_detected,
                  ear_value |-> loc[t].ear_value])])
    /\ Goto(t, "respond")
    /\ UNCHANGED <<blink_state, frame_buffer, now, last, pushed, ears>>
    /\ Observe

\* lines 496, 503, 509, the read of frame_stats['total_errors'] += 1
ErrLoad(t) ==
    /\ pc[t] = "err_load"
    /\ SetLoc(t, [loc[t] EXCEPT !.tmp = frame_stats.total_errors])
    /\ Goto(t, "err_store")
    /\ UNCHANGED <<frame_stats, blink_state, frame_buffer, now, last, pushed, ears>>
    /\ Observe

\* lines 496, 503, 509, the write of frame_stats['total_errors'] += 1
ErrStore(t) ==
    /\ pc[t] = "err_store"
    /\ frame_stats' = [frame_stats EXCEPT !.total_errors = loc[t].tmp + 1]
    /\ Goto(t, "respond")
    /\ UNCHANGED <<blink_state, frame_buffer, now, last, pushed, ears, loc>>
    /\ Observe

\* lines 512-516: the response is sent
Respond(t) ==
    /\ pc[t] = "respond"
    /\ SetLoc(t, [loc[t] EXCEPT !.responses = Append(@, HttpResponse(200, loc[t].body))])
    /\ Goto(t, "done")
    /\ UNCHANGED <<frame_stats, blink_state, frame_buffer, now, last, pushed, ears>>
    /\ Observe

\* line 520: the path is tested; lines 538-539 answer 404
GetStart(t) ==
    /\ pc[t] = "get"
    /\ IF loc[t].req.path = "/health"
       THEN Goto(t, "get_recv") /\ UNCHANGED loc
       ELSE /\ Goto(t, "done")
            /\ SetLoc(t, [loc[t] EXCEPT !.responses = Append(@, HttpResponse(404, None))])
    /\ UNCHANGED <<frame_stats, blink_state, frame_buffer, now, last, pushed, ears>>
    /\ Observe

\* line 526: frame_stats['total_received'] is read
GetRecv(t) ==
    /\ pc[t] = "get_recv"
    /\ SetLoc(t, [loc[t] EXCEPT !.stats = Append(@, frame_stats.total_received)])
    /\ Goto(t, "get_proc")
    /\ UNCHANGED <<frame_stats, blink_state, frame_buffer, now, last, pushed, ears>>
    /\ Observe

\* line 527: frame_stats['total_processed'] is read
GetProc(t) ==
    /\ pc[t] = "get_proc"
    /\ SetLoc(t, [loc[t] EXCEPT !.stats = Append(@, frame_stats.total_processed)])
    /\ Goto(t, "get_err")
    /\ UNCHANGED <<frame_stats, blink_state, frame_buffer, now, last, pushed, ears>>
    /\ Observe

\* line 528: frame_stats['total_errors'] is read
GetErr(t) ==
    /\ pc[t] = "get_err"
    /\ SetLoc(t, [loc[t] EXCEPT !.stats = Append(@, frame_stats.total_errors)])
    /\ Goto(t, "get_buf")
    /\ UNCHANGED <<frame_stats, blink_state, frame_buffer, now, last, pushed, ears>>
    /\ Observe

\* line 529: len(frame_buffer) is read
GetBuf(t) ==
    /\ pc[t] = "get_buf"
    /\ SetLoc(t, [loc[t] EXCEPT !.stats = Append(@, Len(frame_buffer))])
    /\ Goto(t, "get_time")
    /\ UNCHANGED <<frame_stats, blink_state, frame_buffer, now, last, pushed, ears>>
    /\ Observe

\* line 530: frame_stats['last_frame_time'] is read, and lines 533-536: the
\* response is sent
GetTime(t) ==
    /\ pc[t] = "get_time"
    /\ SetLoc(t, [loc[t] EXCEPT !.responses = Append(@, HttpResponse(200, Some(
            [status |-> "running",
             stats |-> [total_received |-> loc[t].stats[1],
                        total_processed |-> loc[t].stats[2],
                        total_errors |-> loc[t].stats[3],
                        frames_in_buffer |-> loc[t].stats[4],
                        last_frame_time |->
                            IF frame_stats.last_frame_time # None
                            THEN Some(isoformat(TheVal(frame_stats.last_frame_time)))
                            ELSE None]])))])
    /\ Goto(t, "done")
    /\ UNCHANGED <<frame_stats, blink_state, frame_buffer, now, last, pushed, ears>>
    /\ Observe

\* the session is started while requests are in flight
startSessionConc ==
    /\ ~blink_state.session_active
    /\ blink_state' = [was_closed |-> FALSE, blink_count |-> 0,
                       session_active |-> TRUE, session_start_time |-> Some(now)]
    /\ ears' = <<>>
    /\ UNCHANGED <<frame_stats, frame_buffer, now, last, pushed, pc, loc>>
    /\ Observe

ConcRequests ==
    { PostFrame("/", "QQ==", "f1", FALSE, DetEar(33), TRUE),
      PostFrame("/", "QQ==", "f2", FALSE, DetEar(46), TRUE),
      PostFrame("/", "QQ==", "f1", TRUE, DetNoFace, FALSE),
      PostFrame("/", "QQ", "f1", FALSE, DetNoFace, TRUE),
      PostBody("object", FALSE), PostBody("not_json", TRUE), PostBody("object", TRUE),
      GetPath("/health") }

NextConc ==
    \/ \E t \in Threads : \E req \in ConcRequests : Accept(t, req)
    \/ \E t \in Threads : Parse(t)
    \/ \E t \in Threads : RecvLoad(t)
    \/ \E t \in Threads : RecvStore(t)
    \/ \E t \in Threads : SetTime(t)
    \/ \E t \in Threads : Decode(t)
    \/ \E t \in Threads : Push(t)
    \/ \E t \in Threads : Detect(t)
    \/ \E t \in Threads : BlinkEdgeRead(t)
    \/ \E t \in Threads : CountLoad(t)
    \/ \E t \in Threads : CountStore(t)
    \/ \E t \in Threads : ClosedStore(t)
    \/ \E t \in Threads : Save(t)
    \/ \E t \in Threads : ProcLoad(t)
    \/ \E t \in Threads : ProcStore(t)
    \/ \E t \in Threads : ErrLoad(t)
    \/ \E t \in Threads : ErrStore(t)
    \/ \E t \in Threads : Respond(t)
    \/ \E t \in Threads : GetStart(t)
    \/ \E t \in Threads : GetRecv(t)
    \/ \E t \in Threads : GetProc(t)
    \/ \E t \in Threads : GetErr(t)
    \/ \E t \in Threads : GetBuf(t)
    \/ \E t \in Threads : GetTime(t)
    \/ startSessionConc

SpecConc == Init /\ [][NextConc]_vars

-----------------------------------------------------------------------------
(* Vocabulary of the properties *)

\* closed means EAR <= 0.35
Closed(ear) == ear[1] * 100 <= 35 * ear[2]

\* the EAR ear equals k hundredths
IsEar(ear, k) == ear[1] * 100 = k * ear[2]

\* the number of adjacent sample pairs (previous closed, current open)
ClosedOpenPairs(samples) ==
    Cardinality({ i \in 1..(Len(samples) - 1) :
                    Closed(samples[i]) /\ ~Closed(samples[i + 1]) })

Min(a, b) == IF a <= b THEN a ELSE b

\* the last n elements of a sequence
LastN(seq, n) ==
    IF Len(seq) <= n THEN seq ELSE SubSeq(seq, Len(seq) - n + 1, Len(seq))

\* the latest step handled a POST request
LastIsPost == last.req.method = "POST"

\* the body of the single response to the latest request
LastBody == TheVal(last.responses[1].body)

\* the latest request carried a frame that decodes and reached the detector
DecodableFrame(req) ==
    /\ req.method = "POST"
    /\ req.content_length_ok
    /\ req.body = "object"
    /\ Get(req.frame, "") # ""
    /\ b64decode(Get(req.frame, "")) # None

DetectorFailed(req) == req.det.kind \in {"raise", "no_face"}

-----------------------------------------------------------------------------
(* Blink state machine *)

\* C1: the blink count equals the number of adjacent pairs (closed sample,
\* open sample) in the sequence of defined EAR samples fed to the session
\* since it started with wasClosed = false.
C1_BlinkCountIsClosedOpenPairs ==
    blink_state.blink_count = ClosedOpenPairs(ears)

\* the samples 0.33, 0.20, 0.15, 0.46, 0.46 were fed and one blink is counted
C1_Witness ==
    /\ blink_state.session_active
    /\ Len(ears) = 5
    /\ IsEar(ears[1], 33) /\ IsEar(ears[2], 20) /\ IsEar(ears[3], 15)
    /\ IsEar(ears[4], 46) /\ IsEar(ears[5], 46)
    /\ blink_state.blink_count = 1

\* C2: while the session is not active, a POST of any frame leaves blinkCount
\* and wasClosed as they were, and blinkCount at 0 when no session was started.
C2_IdleSuppression ==
    [][ (last'.req.method = "POST" /\ ~blink_state.session_active) =>
            /\ blink_state'.was_closed = blink_state.was_closed
            /\ blink_state'.blink_count = blink_state.blink_count
            /\ (blink_state.session_start_time = None =>
                    blink_state'.blink_count = 0) ]_vars

\* an open frame was ingested while idle after a session that ended closed
C2_Witness ==
    /\ ~blink_state.session_active
    /\ blink_state.was_closed
    /\ LastIsPost
    /\ Len(last.responses) = 1
    /\ LastBody.status = "success"
    /\ LastBody.ear_value # None
    /\ ~Closed(TheVal(LastBody.ear_value))

\* C3: startSession moves Idle to Active with blinkCount 0 and wasClosed
\* false, and the first frame processed after it never increments blinkCount.
C3_StartResetsAndFirstFrameCountsNothing ==
    [][ /\ (last'.req.method = "startSession" =>
                /\ ~blink_state.session_active
                /\ blink_state'.session_active
                /\ blink_state'.blink_count = 0
                /\ ~blink_state'.was_closed)
        /\ ((last.req.method = "startSession" /\ last'.req.method = "POST") =>
                blink_state'.blink_count = 0) ]_vars

\* a second session started after one that ended closed, and its first frame
\* was open: nothing is counted
C3_Witness ==
    /\ blink_state.session_active
    /\ LastIsPost
    /\ blink_state.session_start_time = Some(now - 2)
    /\ now >= 5
    /\ Len(ears) = 1
    /\ ~Closed(ears[1])
    /\ blink_state.blink_count = 0

\* C4: stopSession moves Active to Idle and leaves blinkCount unchanged, and
\* blinkCount keeps its value over every later step until the next
\* startSession.
C4_StopRetainsBlinkCount ==
    [][ /\ (last'.req.method = "stopSession" =>
                /\ blink_state.session_active
                /\ ~blink_state'.session_active
                /\ blink_state'.blink_count = blink_state.blink_count)
        /\ ((~blink_state.session_active /\ last'.req.method # "startSession") =>
                blink_state'.blink_count = blink_state.blink_count) ]_vars

\* a session that counted a blink was stopped and an open frame after a
\* closed one was ingested since: the count is still there
C4_Witness ==
    /\ ~blink_state.session_active
    /\ blink_state.session_start_time # None
    /\ blink_state.blink_count = 1
    /\ blink_state.was_closed
    /\ LastIsPost
    /\ last.req.det.kind = "found"
    /\ calculate_ear(last.req.det.left_eye) # None
    /\ ~Closed(TheVal(calculate_ear(last.req.det.left_eye)))

-----------------------------------------------------------------------------
(* Frame buffer *)

\* C5: after n pushes the buffer holds min(n, 10) frames, and they are the
\* last min(n, 10) frames pushed, in arrival order.
C5_BufferKeepsLastTen ==
    /\ Len(frame_buffer) = Min(Len(pushed), 10)
    /\ frame_buffer = LastN(pushed, 10)

\* 15 frames were pushed, the buffer holds frames 6..15, and frames 5 and 6
\* differ
C5_Witness ==
    /\ Len(pushed) = 15
    /\ Len(frame_buffer) = 10
    /\ frame_buffer[1] = pushed[6]
    /\ frame_buffer[10] = pushed[15]
    /\ pushed[5] # pushed[6]

-----------------------------------------------------------------------------
(* Error handling of the ingestion endpoint *)

\* the request of the step is a POST whose body is not valid JSON
MalformedBody(req) ==
    req.method = "POST" /\ req.body \in {"not_json", "not_utf8"}

\* C7: a POST whose body is not valid JSON is answered with status "error"
\* and message "Invalid JSON data", increments totalErrors by exactly 1 and
\* leaves totalReceived, totalProcessed, lastFrameTime, the frame buffer and
\* the blink session unchanged.
C7_MalformedBodyIsInvalidJson ==
    [][ MalformedBody(last'.req) =>
            /\ last'.responses = <<HttpResponse(200, Some(ErrorBody("Invalid JSON data")))>>
            /\ frame_stats' = [frame_stats EXCEPT !.total_errors = @ + 1]
            /\ frame_buffer' = frame_buffer
            /\ blink_state' = blink_state ]_vars

C9_EveryPostIsAnswered ==
    LastIsPost =>
        /\ ~last.raised
        /\ Len(last.responses) = 1
        /\ last.responses[1].http = 200
        /\ last.responses[1].body # None
        /\ LastBody.status \in {"success", "error"}

\* the request of the step is neither POST / nor GET /health
NotServed(req) ==
    \/ req.method = "POST" /\ req.path # "/"
    \/ req.method = "GET" /\ req.path # "/health"

\* C10: a request other than POST / and GET /health is answered with HTTP 404
\* and an empty body and changes no counter, buffer or session state.
C10_OtherRequestsAre404 ==
    [][ NotServed(last'.req) =>
            /\ last'.responses = <<HttpResponse(404, None)>>
            /\ frame_stats' = frame_stats
            /\ frame_buffer' = frame_buffer
            /\ blink_state' = blink_state ]_vars

-----------------------------------------------------------------------------
(* Concurrency of the statistics registry *)

\* every worker thread has completed a successful ingestion
AllSucceeded ==
    \A t \in Threads :
        /\ pc[t] = "done"
        /\ loc[t].req.method = "POST"
        /\ Len(loc[t].responses) = 1
        /\ TheVal(loc[t].responses[1].body).status = "success"

\* C6: after N successful ingestion requests run concurrently and all have
\* completed, totalReceived = totalProcessed = N and totalErrors = 0.
C6_NoLostUpdates ==
    AllSucceeded =>
        /\ frame_stats.total_received = NumThreads
        /\ frame_stats.total_processed = NumThreads
        /\ frame_stats.total_errors = 0

-----------------------------------------------------------------------------
(* Health endpoint *)

\* the latest step answered GET /health
LastIsHealth ==
    /\ last.req.method = "GET"
    /\ last.req.path = "/health"
    /\ Len(last.responses) = 1
    /\ last.responses[1].http = 200

\* C11: after any sequence of completed requests GET /health reports the
\* registry's current counters, and frames_in_buffer is the buffer's current
\* length, the number of frames pushed so far capped at 10.
C11_HealthReportsCounters ==
    LastIsHealth =>
        /\ LastBody.stats.total_received = frame_stats.total_received
        /\ LastBody.stats.total_processed = frame_stats.total_processed
        /\ LastBody.stats.total_errors = frame_stats.total_errors
        /\ LastBody.stats.frames_in_buffer = Len(frame_buffer)
        /\ LastBody.stats.frames_in_buffer = Min(Len(pushed), 10)

\* health was read after 11 pushes among requests of which some failed: it
\* reports 10 frames in the buffer and the three counters
C11_Witness ==
    /\ LastIsHealth
    /\ Len(pushed) = 11
    /\ LastBody.stats.frames_in_buffer = 10
    /\ LastBody.stats.total_received = 11
    /\ LastBody.stats.total_processed = 10
    /\ LastBody.stats.total_errors = 1

-----------------------------------------------------------------------------
(* Concurrency of the blink session *)

\* every worker thread has completed a POST whose frame had a defined EAR and
\* was fed to the session after it started
AllFramesFed ==
    /\ blink_state.session_active
    /\ Len(ears) = NumThreads
    /\ \A t \in Threads :
        /\ pc[t] = "done"
        /\ loc[t].req.method = "POST"
        /\ loc[t].ear_value # None

\* the pairs <<was_closed, blink_count>> left by applying the frames of the
\* threads in S one at a time, in every order, to the blink state bs
RECURSIVE SerialOutcomes(_, _)
SerialOutcomes(bs, S) ==
    IF S = {} THEN { <<bs.was_closed, bs.blink_count>> }
    ELSE UNION { SerialOutcomes(BlinkUpdate(bs, loc[t].ear_value), S \ {t}) : t \in S }

\* C12: for frames with defined EAR processed concurrently while the session
\* is Active, the resulting blinkCount and wasClosed are those of applying
\* the same frames one at a time in some total order.
C12_FramesAreSerialized ==
    AllFramesFed =>
        <<blink_state.was_closed, blink_state.blink_count>> \in
            SerialOutcomes([blink_state EXCEPT !.was_closed = FALSE,
                                               !.blink_count = 0], Threads)

-----------------------------------------------------------------------------
(* Concurrency of the health endpoint *)

\* C13: the tuple (total_received, total_processed, total_errors,
\* frames_in_buffer) reported by one GET /health equals the values the
\* registry and the buffer held together at one instant during the request.
C13_HealthIsPointInTime ==
    \A t \in Threads :
        (pc[t] = "done" /\ loc[t].req.method = "GET" /\ loc[t].req.path = "/health") =>
            LET stats == TheVal(loc[t].responses[1].body).stats
            IN  <<stats.total_received, stats.total_processed,
                  stats.total_errors, stats.frames_in_buffer>> \in snaps[t]

-----------------------------------------------------------------------------
(* Order of the ingestion steps *)

\* the request is a POST of a JSON object whose frame field is empty or absent
EmptyFrame(req) ==
    /\ req.method = "POST"
    /\ req.content_length_ok
    /\ req.body = "object"
    /\ Get(req.frame, "") = ""

\* the request is a POST of a JSON object whose frame field is not base64
InvalidBase64(req) ==
    /\ req.method = "POST"
    /\ req.content_length_ok
    /\ req.body = "object"
    /\ Get(req.frame, "") # ""
    /\ b64decode(Get(req.frame, "")) = None

\* C14 as stated: a request with an empty frame field or with invalid base64
\* increments totalErrors by exactly 1 and leaves totalReceived,
\* lastFrameTime and the frame buffer unchanged.
C14_RejectedFrameLeavesReceived ==
    [][ (EmptyFrame(last'.req) \/ InvalidBase64(last'.req)) =>
            /\ frame_stats'.total_errors = frame_stats.total_errors + 1
            /\ frame_stats'.total_received = frame_stats.total_received
            /\ frame_stats'.last_frame_time = frame_stats.last_frame_time
            /\ frame_buffer' = frame_buffer ]_vars

\* C14 as amended: totalReceived is incremented and lastFrameTime set as soon
\* as the body parsed as a JSON object, before the frame field is examined;
\* the frame is pushed only when the frame field is non-empty and decodes; a
\* request with an empty frame field or with invalid base64 increments
\* totalErrors and totalReceived by exactly 1 each, sets lastFrameTime and
\* leaves totalProcessed and the frame buffer unchanged.
C14_ReceivedCountedBeforeFrameIsExamined ==
    [][ /\ (EmptyFrame(last'.req) \/ InvalidBase64(last'.req)) =>
                /\ frame_stats' = [frame_stats EXCEPT
                                      !.total_errors = @ + 1,
                                      !.total_received = @ + 1,
                                      !.last_frame_time = Some(now)]
                /\ frame_buffer' = frame_buffer
        /\ (frame_buffer' # frame_buffer) =>
                /\ DecodableFrame(last'.req)
                /\ frame_stats'.total_received = frame_stats.total_received + 1
                /\ frame_stats'.last_frame_time = Some(now) ]_vars

\* a request with invalid base64 was rejected after an ingestion that had
\* succeeded: it is counted as received and as an error, with its time
C14_Witness ==
    /\ InvalidBase64(last.req)
    /\ LastBody.status = "error"
    /\ frame_stats.total_received = 2
    /\ frame_stats.total_processed = 1
    /\ frame_stats.total_errors = 1
    /\ frame_stats.last_frame_time = Some(now - 1)
    /\ Len(frame_buffer) = 1

-----------------------------------------------------------------------------
(* The closed flag of the session *)

\* C15: after every frame with a defined EAR processed while the session is
\* active, wasClosed equals (EAR <= 0.35), an EAR equal to the threshold being
\* closed, whether or not the frame counted a blink.
C15_WasClosedFollowsEveryDefinedEar ==
    [][ \A k \in EarLevels :
            (/\ last'.req.method = "POST"
             /\ last'.req.det = DetEar(k)
             /\ blink_state.session_active) =>
                blink_state'.was_closed = (k <= 35) ]_vars

\* a frame at the threshold followed a counted blink: wasClosed is set again
C15_Witness ==
    /\ blink_state.session_active
    /\ LastIsPost
    /\ last.req.det = DetEar(35)
    /\ blink_state.blink_count = 1
    /\ blink_state.was_closed

\* the request is a POST whose frame yields no EAR: no face, a detector
\* failure or degenerate contours
UndefinedEar(req) ==
    /\ req.method = "POST"
    /\ req.det \in {DetNoFace, DetRaise, DetDegenerate}

\* the request is a POST of a frame whose EAR is above the threshold
OpenAfterClosed(req) ==
    /\ req.method = "POST"
    /\ \E k \in EarLevels : k > 35 /\ req.det = DetEar(k)

\* C16: a frame whose EAR is undefined, processed while the session is
\* active, changes neither wasClosed nor blinkCount; hence an open frame that
\* follows closed frames and any number of undefined-EAR frames counts
\* exactly one blink.
C16_UndefinedEarIsSkipped ==
    [][ /\ (UndefinedEar(last'.req) /\ blink_state.session_active) =>
                /\ blink_state'.was_closed = blink_state.was_closed
                /\ blink_state'.blink_count = blink_state.blink_count
        /\ (/\ OpenAfterClosed(last'.req)
            /\ blink_state.session_active
            /\ blink_state.was_closed
            /\ UndefinedEar(last.req)) =>
                blink_state'.blink_count = blink_state.blink_count + 1 ]_vars

\* closed, then a frame with degenerate contours, then a frame without a
\* face, in an active session: still closed, nothing counted
C16_Witness ==
    /\ blink_state.session_active
    /\ blink_state.was_closed
    /\ blink_state.blink_count = 0
    /\ last.req.det = DetNoFace
    /\ Len(ears) = 1
    /\ now >= 4

-----------------------------------------------------------------------------
(* The health endpoint reads only *)

\* C17: GET /health mutates nothing: the stats counters, lastFrameTime, the
\* frame buffer and the blink session are the same before and after every
\* GET /health request, in every state.
C17_HealthMutatesNothing ==
    [][ (last'.req.method = "GET" /\ last'.req.path = "/health") =>
            /\ frame_stats' = frame_stats
            /\ frame_buffer' = frame_buffer
            /\ blink_state' = blink_state ]_vars

\* two health requests in a row were answered in an active session that had
\* counted a blink, with frames received and buffered
C17_Witness ==
    /\ LastIsHealth
    /\ LastBody.stats.total_received = 2
    /\ LastBody.stats.frames_in_buffer = 2
    /\ frame_stats.total_received = 2
    /\ frame_stats.last_frame_time = Some(now - 3)
    /\ Len(frame_buffer) = 2
    /\ blink_state.session_active
    /\ blink_state.blink_count = 1

-----------------------------------------------------------------------------
(* The eye aspect ratio *)

\* the last request was a POST answered with success
LastSucceeded ==
    /\ LastIsPost
    /\ Len(last.responses) = 1
    /\ LastBody.status = "success"

RECURSIVE Gcd(_, _)
Gcd(a, b) == IF b = 0 THEN a ELSE Gcd(b, a % b)

\* a non-negative rational in lowest terms
Reduced(r) == <<r[1] \div Gcd(r[1], r[2]), r[2] \div Gcd(r[1], r[2])>>

\* equality of two optional rationals
SameEar(a, b) ==
    IF a = None \/ b = None THEN a = b
    ELSE Reduced(TheVal(a)) = Reduced(TheVal(b))

\* the mean of two rationals
Mean(l, r) == <<l[1] * r[2] + r[1] * l[2], 2 * l[2] * r[2]>>

\* C18: the combined EAR is the average of the left and right EAR when both
\* are defined, the defined one when exactly one is defined, and undefined
\* when neither is defined or when no landmarks were returned.
C18_CombinedEar ==
    LastSucceeded =>
        LET det == last.req.det
            left == calculate_ear(det.left_eye)
            right == calculate_ear(det.right_eye)
            ear == LastBody.ear_value
        IN  IF det.kind # "found" THEN ear = None
            ELSE IF left # None /\ right # None
                 THEN SameEar(ear, Some(Mean(TheVal(left), TheVal(right))))
            ELSE IF left # None THEN SameEar(ear, left)
            ELSE IF right # None THEN SameEar(ear, right)
            ELSE ear = None

\* left EAR 0.33 and right EAR 37/80 gave 0.39625, in the second of two
\* frames
C18_Witness ==
    /\ LastSucceeded
    /\ last.req.det.left_eye = Eye(33)
    /\ last.req.det.right_eye = SlantedEye
    /\ SameEar(LastBody.ear_value, Some(<<39625, 100000>>))
    /\ frame_stats.total_processed = 2

\* the last request showed the calculator one contour only: the other is absent
OneContour(req) ==
    /\ req.method = "POST"
    /\ req.det.kind = "found"
    /\ (req.det.left_eye = None \/ req.det.right_eye = None)

\* the contour of such a request
TheContour(req) ==
    IF req.det.right_eye = None THEN req.det.left_eye ELSE req.det.right_eye

\* C19: the single-eye EAR is undefined exactly when the contour is absent,
\* has fewer than 6 points, or its two corner points coincide; for every
\* other contour it is defined and non-negative, with a non-zero divisor.
C19_SingleEarUndefinedExactlyWhenDegenerate ==
    (LastSucceeded /\ OneContour(last.req)) =>
        LET c == TheContour(last.req)
            ear == LastBody.ear_value
        IN  /\ (ear = None) <=> (c = None \/ Len(c) < 6 \/ c[1] = c[2])
            /\ ear # None => (TheVal(ear)[2] > 0 /\ TheVal(ear)[1] >= 0)

\* a contour with coincident corners, alone, gave no EAR
C19_Witness ==
    /\ LastSucceeded
    /\ last.req.det.left_eye = DegenerateEye
    /\ last.req.det.right_eye = None
    /\ LastBody.ear_value = None
    /\ LastBody.face_detected

\* the Euclidean distance of two points at an integral distance
Dist(p, q) ==
    LET dx == IF p[1] < q[1] THEN q[1] - p[1] ELSE p[1] - q[1]
        dy == IF p[2] < q[2] THEN q[2] - p[2] ELSE p[2] - q[2]
    IN  CHOOSE d \in 0..(dx + dy) : d * d = dx * dx + dy * dy

\* C20: for a contour [outer, inner, top1, bottom1, top2, bottom2] the
\* single-eye EAR is (dist(top1, bottom2) + dist(top2, bottom1)) /
\* (2 * dist(outer, inner)) with the Euclidean distance.
C20_EarFormula ==
    (LastSucceeded /\ OneContour(last.req) /\ LastBody.ear_value # None) =>
        LET c == TheContour(last.req)
            outer == c[1]
            inner == c[2]
            top1 == c[3]
            bottom1 == c[4]
            top2 == c[5]
            bottom2 == c[6]
            ear == TheVal(LastBody.ear_value)
        IN  Reduced(ear) = Reduced(<<Dist(top1, bottom2) + Dist(top2, bottom1),
                                     2 * Dist(outer, inner)>>)

\* the slanted contour, alone, gave (20 + 17) / (2 * 40)
C20_Witness ==
    /\ LastSucceeded
    /\ last.req.det.left_eye = None
    /\ last.req.det.right_eye = SlantedEye
    /\ SameEar(LastBody.ear_value, Some(<<37, 80>>))

-----------------------------------------------------------------------------
(* The program as written: no session, and the accounting of the counters *)

\* C21: no operation of the program sets session_active, so in every state
\* reachable by POST and GET requests session_active is false, blink_count
\* is 0 and was_closed is false.
C21_SessionNeverActive ==
    /\ ~blink_state.session_active
    /\ blink_state.blink_count = 0
    /\ ~blink_state.was_closed

\* a closed frame was ingested after two other frames: nothing was counted
\* and the closed flag is still false
C21_Witness ==
    /\ LastSucceeded
    /\ last.req.det = DetEar(33)
    /\ Closed(TheVal(LastBody.ear_value))
    /\ frame_stats.total_processed >= 3
    /\ blink_state = [was_closed |-> FALSE, blink_count |-> 0,
                      session_active |-> FALSE, session_start_time |-> None]

\* the latest request is a POST that was answered
AnsweredPost(l) == l.req.method = "POST" /\ Len(l.responses) = 1

\* C22: with requests run one at a time, each completed POST increments
\* exactly one of total_processed (status success) or total_errors (status
\* error) by exactly 1, and no other step changes either, so that after k
\* completed POSTs total_processed + total_errors = k; and total_processed
\* <= total_received in every state.
C22_CounterAccounting ==
    [][ /\ IF AnsweredPost(last')
           THEN LET status == TheVal(last'.responses[1].body).status
                IN  \/ /\ status = "success"
                       /\ frame_stats'.total_processed = frame_stats.total_processed + 1
                       /\ frame_stats'.total_errors = frame_stats.total_errors
                    \/ /\ status = "error"
                       /\ frame_stats'.total_errors = frame_stats.total_errors + 1
                       /\ frame_stats'.total_processed = frame_stats.total_processed
           ELSE /\ frame_stats'.total_processed = frame_stats.total_processed
                /\ frame_stats'.total_errors = frame_stats.total_errors
        /\ frame_stats.total_processed <= frame_stats.total_received
        /\ frame_stats'.total_processed <= frame_stats'.total_received ]_vars

\* four POSTs were answered, two with success and two with an error, the
\* last one with an error for a body that is not JSON
C22_Witness ==
    /\ AnsweredPost(last)
    /\ MalformedBody(last.req)
    /\ LastBody.status = "error"
    /\ now = 4
    /\ frame_stats.total_processed = 2
    /\ frame_stats.total_errors = 2
    /\ frame_stats.total_received = 2

-----------------------------------------------------------------------------
(* Requests answered with an error, and the growth of the blink count *)

\* C23: a POST answered with status "error" leaves the frame buffer and the
\* blink session (was_closed, blink_count) exactly as they were before the
\* request, also when frame persistence fails after the buffer push and the
\* blink update.
C23_ErrorLeavesBufferAndSession ==
    [][ (AnsweredPost(last') /\ TheVal(last'.responses[1].body).status = "error") =>
            /\ frame_buffer' = frame_buffer
            /\ blink_state'.was_closed = blink_state.was_closed
            /\ blink_state'.blink_count = blink_state.blink_count ]_vars

\* the number of closed samples among the samples fed to the session
ClosedSamples(samples) ==
    Cardinality({ i \in 1..Len(samples) : Closed(samples[i]) })

\* C24: with frames applied one at a time, a frame never decreases
\* blink_count and increases it by at most 1, and in every state blink_count
\* is at most the number of closed samples processed while the session was
\* active (counted here since the start of the session, which is no more
\* than all of them).
C24_BlinkCountGrowth ==
    [][ /\ last'.req.method = "POST" =>
                /\ blink_state'.blink_count >= blink_state.blink_count
                /\ blink_state'.blink_count <= blink_state.blink_count + 1
        /\ blink_state.blink_count <= ClosedSamples(ears)
        /\ blink_state'.blink_count <= ClosedSamples(ears') ]_vars

\* closed, open, closed, open were fed: two blinks for two closed samples
C24_Witness ==
    /\ blink_state.session_active
    /\ Len(ears) = 4
    /\ Closed(ears[1]) /\ ~Closed(ears[2]) /\ Closed(ears[3]) /\ ~Closed(ears[4])
    /\ blink_state.blink_count = 2
    /\ LastIsPost

====
